---------------------------- MODULE Spec2Model ----------------------------
(***************************************************************************)
(* A model of the fastpitch tournament scraper (fastpitch_scraper.py) and  *)
(* of the query service in front of it (server.py).                        *)
(*                                                                         *)
(* The module holds five specifications over one set of variables:         *)
(*   Spec         the query service: boot, GET /events, POST /scrape-now   *)
(*                and the token-by-token overwrite of the snapshot file    *)
(*   SpecFetch    fetch(): relay attempts, direct attempts, backoff        *)
(*   SpecNorm     normalize_event() over raw records with alias keys       *)
(*   SpecRun      the adapter loop of run_all_scrapers()                   *)
(*   SpecAdapter  the five source adapters over fetched bodies             *)
(* Each specification leaves the variables of the others at their initial  *)
(* values.                                                                 *)
(***************************************************************************)
EXTENDS Integers, Sequences, FiniteSets, TLC

VARIABLES
    \* ---- the query service and the snapshot store (Spec)
    file,        \* fastpitch_master.json: [mode, toks]
    csv,         \* fastpitch_master.csv: sequence of rows
    serving,     \* TRUE once server.py's module body has run and requests are served
    rpc,         \* position of the thread inside run_all_scrapers
    all_events,  \* run_all_scrapers' local list
    pending,     \* chunks json.dump has not yet written
    prev,        \* history: the file as it was when the current run opened it
    wrote,       \* history: the current or last run closed the JSON file without an error
    ge,          \* what get_events() returned to the last request (None: it made no call)
    response,    \* the JSON object the last request was answered with
    tick,        \* flips at every GET /events, so that a request is a visible step
    \* ---- fetch (SpecFetch)
    target_url,      \* fetch's argument
    use_scrapingant, \* USE_SCRAPINGANT: a relay key is configured
    prefer_proxy,    \* fetch's argument
    fpc,             \* position inside fetch: "start", "relay", "direct", "done"
    attempt,         \* the retry loop's counter
    backoff,         \* the retry loop's base delay, in tenths of a second
    relay_sleeps,    \* history: base delays fetch_via_scrapingant has slept
    direct_sleeps,   \* history: base delays fetch_direct has slept
    tried,           \* history: the attempts made, [via, outcome]
    txt,             \* fetch's return value
    \* ---- normalize_event (SpecNorm)
    event,           \* normalize_event's argument, a raw record
    normalized,      \* normalize_event's return value (None before the call)
    \* ---- run_all_scrapers' adapter loop (SpecRun)
    yields,          \* history: what each scraper() call did, in call order
    returned,        \* run_all_scrapers' return value (None before it returns)
    \* ---- the source adapters (SpecAdapter)
    adapter,         \* the adapter that was called ("" before the call)
    body,            \* what fetch returned to it
    scraped          \* what the call did: raised, or the list it returned

storeVars == <<file, csv, serving, rpc, all_events, pending, prev, wrote, ge, response, tick>>
fetchVars == <<target_url, use_scrapingant, prefer_proxy, fpc, attempt, backoff,
               relay_sleeps, direct_sleeps, tried, txt>>

normVars  == <<event, normalized>>
runVars   == <<yields, returned>>

adapterVars == <<adapter, body, scraped>>

vars == <<storeVars, fetchVars, normVars, runVars, adapterVars>>

notStore == <<fetchVars, normVars, runVars, adapterVars>>
notFetch == <<storeVars, normVars, runVars, adapterVars>>
notNorm  == <<storeVars, fetchVars, runVars, adapterVars>>
notAdapter == <<storeVars, fetchVars, normVars, runVars>>

(***************************************************************************)
(* Bounds of the model.                                                    *)
(***************************************************************************)
MaxEvents == 2      \* events in a snapshot of Spec
MaxKeys == 3        \* keys present in a raw record of SpecNorm
MaxYield == 3       \* records one adapter yields in SpecRun
MaxItems == 2       \* items in a USSSA payload's list in SpecAdapter
MaxScripts == 2     \* script tags of a USSSA page in SpecAdapter
MaxDoc == 2         \* top-level elements of a page in SpecAdapter

(***************************************************************************)
(* Python values.  Every value is a node [k, s, n, items]; k is the type,  *)
(* s the text of a str (or the key of a dict entry), n the number (or the  *)
(* truth value of a bool), items the elements of a list or the entries of  *)
(* a dict in insertion order.                                              *)
(***************************************************************************)
PNone      == [k |-> "none", s |-> "", n |-> 0, items |-> <<>>]
PBool(b)   == [k |-> "bool", s |-> "", n |-> IF b THEN 1 ELSE 0, items |-> <<>>]
PNum(i)    == [k |-> "num",  s |-> "", n |-> i, items |-> <<>>]
PStr(x)    == [k |-> "str",  s |-> x,  n |-> 0, items |-> <<>>]
PList(xs)  == [k |-> "list", s |-> "", n |-> 0, items |-> xs]
PDict(ps)  == [k |-> "dict", s |-> "", n |-> 0, items |-> ps]
Pair(x, v) == [k |-> "pair", s |-> x,  n |-> 0, items |-> <<v>>]

\* bool(v): Python's truth value of v
Truthy(v) ==
    CASE v.k = "none" -> FALSE
      [] v.k = "bool" -> v.n = 1
      [] v.k = "num"  -> v.n /= 0
      [] v.k = "str"  -> v.s /= ""
      [] OTHER        -> Len(v.items) > 0

\* d.get(key) of a dict node: the value under key, None when the key is missing
DictGet(d, key) ==
    IF \E i \in 1..Len(d.items) : d.items[i].s = key
    THEN d.items[CHOOSE i \in 1..Len(d.items) : d.items[i].s = key].items[1]
    ELSE PNone

\* d[key] = v: replaces the value of a key already present, appends a new key
DictSet(ps, key, v) ==
    IF \E i \in 1..Len(ps) : ps[i].s = key
    THEN [i \in 1..Len(ps) |-> IF ps[i].s = key THEN Pair(key, v) ELSE ps[i]]
    ELSE Append(ps, Pair(key, v))

\* len(v): defined for list, dict and str; a TypeError (ok = FALSE) otherwise
PyLen(v) ==
    CASE v.k \in {"list", "dict"} -> [ok |-> TRUE, n |-> Len(v.items)]
      [] v.k = "str"              -> [ok |-> TRUE, n |-> Len(v.s)]
      [] OTHER                    -> [ok |-> FALSE, n |-> 0]

(***************************************************************************)
(* JSON text, as the sequence of its tokens (whitespace carries no         *)
(* meaning and is left out).  p: punctuation, s: string literal,           *)
(* n: number literal, w: any other bare word (true, false, null, or text   *)
(* that is no JSON at all).                                                *)
(***************************************************************************)
Punct(c) == [t |-> "p", s |-> c, n |-> 0]
Str(x) == [t |-> "s", s |-> x, n |-> 0]
Num(i) == [t |-> "n", s |-> "", n |-> i]
Word(x) == [t |-> "w", s |-> x, n |-> 0]

RECURSIVE DumpEach(_, _)
RECURSIVE Dump(_)
\* json.dump(v, f): the chunks written for v, in order
Dump(v) ==
    CASE v.k = "none" -> <<Word("null")>>
      [] v.k = "bool" -> <<Word(IF v.n = 1 THEN "true" ELSE "false")>>
      [] v.k = "num"  -> <<Num(v.n)>>
      [] v.k = "str"  -> <<Str(v.s)>>
      [] v.k = "list" -> <<Punct("[")>> \o DumpEach(v.items, 1) \o <<Punct("]")>>
      [] v.k = "dict" -> <<Punct("{")>> \o DumpEach(v.items, 1) \o <<Punct("}")>>
      [] v.k = "pair" -> <<Str(v.s), Punct(":")>> \o Dump(v.items[1])

\* the elements from the i-th on, separated by commas
DumpEach(xs, i) ==
    IF i > Len(xs) THEN <<>>
    ELSE IF i = Len(xs) THEN Dump(xs[i])
    ELSE Dump(xs[i]) \o <<Punct(",")>> \o DumpEach(xs, i + 1)

ParseFail == [ok |-> FALSE, val |-> PNone, next |-> 0]
ParseOk(v, i) == [ok |-> TRUE, val |-> v, next |-> i]

RECURSIVE ParseValue(_, _)
RECURSIVE ParseElements(_, _, _)
RECURSIVE ParseMembers(_, _, _)
\* the JSON value that starts at token i of t, and the position after it
ParseValue(t, i) ==
    IF i > Len(t) THEN ParseFail
    ELSE CASE t[i].t = "s" -> ParseOk(PStr(t[i].s), i + 1)
           [] t[i].t = "n" -> ParseOk(PNum(t[i].n), i + 1)
           [] t[i] = Word("null")  -> ParseOk(PNone, i + 1)
           [] t[i] = Word("true")  -> ParseOk(PBool(TRUE), i + 1)
           [] t[i] = Word("false") -> ParseOk(PBool(FALSE), i + 1)
           [] t[i] = Punct("[") ->
                IF i + 1 <= Len(t) /\ t[i + 1] = Punct("]")
                THEN ParseOk(PList(<<>>), i + 2)
                ELSE ParseElements(t, i + 1, <<>>)
           [] t[i] = Punct("{") ->
                IF i + 1 <= Len(t) /\ t[i + 1] = Punct("}")
                THEN ParseOk(PDict(<<>>), i + 2)
                ELSE ParseMembers(t, i + 1, <<>>)
           [] OTHER -> ParseFail

ParseElements(t, i, acc) ==
    LET r == ParseValue(t, i) IN
    IF ~r.ok \/ r.next > Len(t) THEN ParseFail
    ELSE IF t[r.next] = Punct(",") THEN ParseElements(t, r.next + 1, Append(acc, r.val))
    ELSE IF t[r.next] = Punct("]") THEN ParseOk(PList(Append(acc, r.val)), r.next + 1)
    ELSE ParseFail

ParseMembers(t, i, acc) ==
    IF i + 1 > Len(t) \/ t[i].t /= "s" \/ t[i + 1] /= Punct(":") THEN ParseFail
    ELSE LET r == ParseValue(t, i + 2) IN
         IF ~r.ok \/ r.next > Len(t) THEN ParseFail
         ELSE IF t[r.next] = Punct(",")
              THEN ParseMembers(t, r.next + 1, DictSet(acc, t[i].s, r.val))
         ELSE IF t[r.next] = Punct("}")
              THEN ParseOk(PDict(DictSet(acc, t[i].s, r.val)), r.next + 1)
         ELSE ParseFail

\* json.load / json.loads: the whole text must be one JSON value
Load(t) ==
    LET r == ParseValue(t, 1) IN
    IF r.ok /\ r.next = Len(t) + 1 THEN [ok |-> TRUE, val |-> r.val]
    ELSE [ok |-> FALSE, val |-> PNone]


(***************************************************************************)
(* Canonical events and the snapshot store.                                *)
(***************************************************************************)
SeqsUpTo(A, n) == UNION {[1..k -> A] : k \in 0..n}

\* x or y
Or(x, y) == IF Truthy(x) THEN x ELSE y

NA == PStr("N/A")

\* a plausible slip: dict.get's default instead of "or", which lets a present
\* but empty value through
normalize_event_by_default(e) ==
    LET get(key) == IF \E i \in 1..Len(e.items) : e.items[i].s = key
                    THEN DictGet(e, key) ELSE NA
    IN PDict(<< Pair("event_name", get("event_name")),
                Pair("start_date", get("start_date")),
                Pair("end_date", get("end_date")),
                Pair("location", get("location")),
                Pair("sanction", get("sanction")),
                Pair("link", get("link")),
                Pair("age_divisions", Or(DictGet(e, "age_divisions"), PList(<<>>))) >>)

\* normalize_event(event): the dict literal, each value an "or" chain over get()
normalize_event(e) ==
    LET get(key) == DictGet(e, key)
    IN PDict(<< Pair("event_name",
                     Or(get("event_name"), Or(get("name"), Or(get("Name"), NA)))),
                Pair("start_date",
                     Or(get("start_date"), Or(get("startDate"), Or(get("StartDate"), NA)))),
                Pair("end_date",
                     Or(get("end_date"), Or(get("endDate"), Or(get("EndDate"), NA)))),
                Pair("location",
                     Or(get("location"), Or(get("Location"), Or(get("city"), NA)))),
                Pair("sanction", Or(get("sanction"), Or(get("source"), NA))),
                Pair("link",
                     Or(get("link"), Or(get("url"), Or(get("link_url"), NA)))),
                Pair("age_divisions",
                     Or(get("age_divisions"), Or(get("age"), PList(<<>>)))) >>)

\* the dict an adapter appends to its events list
RawEvent(name, start, end, loc, sanction, link) ==
    PDict(<< Pair("event_name", PStr(name)), Pair("start_date", PStr(start)),
             Pair("end_date", PStr(end)), Pair("location", PStr(loc)),
             Pair("sanction", PStr(sanction)), Pair("link", PStr(link)) >>)

\* two canonical events, as normalize_event returns them
SnapEvents ==
    { normalize_event(RawEvent("Spring Classic", "2025-03-01", "N/A", "Austin, TX",
                               "USSSA", "https://usssa.com/tournament/7")),
      normalize_event(RawEvent("Fall Brawl", "Oct 4-5", "Oct 4-5", "",
                               "PGF", "N/A")) }

\* the lists a run of the adapter loop may end with (SpecRun has the loop itself)
Snapshots == SeqsUpTo(SnapEvents, MaxEvents)

\* the list json.dump is given
PyEvents(es) == PList(es)

\* the wrapper get_events returns: {"count": c, "events": d}
Wrapper(c, d) == PDict(<<Pair("count", PNum(c)), Pair("events", d)>>)

EmptyResult == Wrapper(0, PList(<<>>))

AbsentFile     == [mode |-> "absent", toks |-> <<>>]
UnreadableFile == [mode |-> "unreadable", toks |-> <<>>]
TextFile(t)    == [mode |-> "ok", toks |-> t]

\* a plausible slip: mode "a" keeps what the file held
OpenForAppend(f) == TextFile(f.toks)

\* open(path, "w"): the file exists and is empty
OpenForWrite(f) == TextFile(<<>>)

\* get_events(): every exception of open, json.load and len gives the empty wrapper
get_events(f) ==
    IF f.mode /= "ok" THEN EmptyResult
    ELSE LET data == Load(f.toks) IN
         IF ~data.ok \/ ~PyLen(data.val).ok THEN EmptyResult
         ELSE Wrapper(PyLen(data.val).n, data.val)

\* the object GET /events passes to jsonify
events(data) == PDict(<<Pair("count", PNum(PyLen(data).n)), Pair("events", data)>>)

CsvHeader == <<"event_name", "start_date", "end_date", "location", "sanction", "link">>

\* e.get(key, "N/A")
GetOrNA(e, key) == IF \E i \in 1..Len(e.items) : e.items[i].s = key THEN DictGet(e, key) ELSE NA

\* the rows csv.writer writes: the header, then one row per event
CsvRows(es) ==
    <<[i \in 1..Len(CsvHeader) |-> PStr(CsvHeader[i])]>> \o
    [i \in 1..Len(es) |-> [j \in 1..Len(CsvHeader) |-> GetOrNA(es[i], CsvHeader[j])]]

\* the states fastpitch_master.json may be in when the service starts
InitFiles ==
    {AbsentFile, UnreadableFile}
    \cup {TextFile(Dump(PyEvents(s))) : s \in Snapshots}
    \cup {TextFile(t) : t \in
            { <<>>, <<Punct("[")>>, <<Word("<html>")>>,
              Dump(Wrapper(1, PyEvents(<<CHOOSE e \in SnapEvents : TRUE>>))),
              Dump(PStr("abc")), Dump(PNum(5)), Dump(PNone) }}

IdleFetch ==
    /\ target_url = ""
    /\ use_scrapingant = FALSE
    /\ prefer_proxy = FALSE
    /\ fpc = "idle"
    /\ attempt = 0
    /\ backoff = 0
    /\ relay_sleeps = <<>>
    /\ direct_sleeps = <<>>
    /\ tried = <<>>
    /\ txt = PNone

IdleNorm ==
    /\ event = PNone
    /\ normalized = PNone

IdleRun ==
    /\ yields = <<>>
    /\ returned = PNone

\* what a call scraper() may do: raise, or return a list of records
Raised == [raised |-> TRUE, data |-> <<>>]
Yielded(d) == [raised |-> FALSE, data |-> d]

\* what fetch returns: None, an empty text, or a text.  A text is given by its
\* JSON tokens (for json.loads), its script tags and its elements (for
\* BeautifulSoup).
NoBody    == [kind |-> "none",  toks |-> <<>>, scripts |-> <<>>, doc |-> <<>>]
EmptyBody == [kind |-> "empty", toks |-> <<>>, scripts |-> <<>>, doc |-> <<>>]

IdleAdapter ==
    /\ adapter = ""
    /\ body = NoBody
    /\ scraped = Yielded(<<>>)

IdleStore ==
    /\ file = AbsentFile
    /\ csv = <<>>
    /\ serving = FALSE
    /\ rpc = "off"
    /\ all_events = <<>>
    /\ pending = <<>>
    /\ prev = AbsentFile
    /\ wrote = FALSE
    /\ ge = PNone
    /\ response = PNone
    /\ tick = FALSE

InitStore ==
    /\ file \in InitFiles
    /\ csv = <<>>
    /\ serving = FALSE
    /\ rpc = "boot"
    /\ all_events = <<>>
    /\ pending = <<>>
    /\ prev = AbsentFile
    /\ wrote = FALSE
    /\ ge = PNone
    /\ response = PNone
    /\ tick = FALSE

\* server.py's module body: without a data file the scraper runs once, synchronously
boot ==
    /\ rpc = "boot"
    /\ IF file.mode = "absent"
       THEN rpc' = "scrape" /\ UNCHANGED serving
       ELSE rpc' = "idle" /\ serving' = TRUE
    /\ UNCHANGED <<file, csv, all_events, pending, prev, wrote, ge, response, tick>>
    /\ UNCHANGED notStore

\* POST /scrape-now: starts refresh_data in a thread and answers at once
\* (one run at a time is modelled)
scrape_now ==
    /\ serving
    /\ rpc = "idle"
    /\ rpc' = "scrape"
    /\ ge' = PNone
    /\ response' = PDict(<<Pair("status", PStr("Scrape started"))>>)
    /\ UNCHANGED <<file, csv, serving, all_events, pending, prev, wrote, tick>>
    /\ UNCHANGED notStore

\* run_all_scrapers, the adapter loop: it ends with some list of canonical events
run_scrape ==
    /\ rpc = "scrape"
    /\ \E s \in Snapshots : all_events' = s
    /\ rpc' = "open"
    /\ wrote' = FALSE
    /\ UNCHANGED <<file, csv, serving, pending, prev, ge, response, tick>>
    /\ UNCHANGED notStore

\* run_all_scrapers, open("fastpitch_master.json", "w"): truncates the file, or
\* raises where the path cannot be opened (the error is printed, nothing is written)
json_open ==
    /\ rpc = "open"
    /\ IF file.mode /= "unreadable"
       THEN /\ prev' = file
            /\ file' = OpenForWrite(file)
            /\ pending' = Dump(PyEvents(all_events))
            /\ rpc' = "write"
       ELSE /\ rpc' = "csv"
            /\ UNCHANGED <<file, pending, prev>>
    /\ UNCHANGED <<csv, serving, all_events, wrote, ge, response, tick>>
    /\ UNCHANGED notStore

\* run_all_scrapers, json.dump: the next chunk reaches the file.  The buffer is
\* flushed wherever it fills, so a reader may find any prefix of the text.
json_write ==
    /\ rpc = "write"
    /\ pending /= <<>>
    /\ file' = TextFile(Append(file.toks, Head(pending)))
    /\ pending' = Tail(pending)
    /\ UNCHANGED <<csv, serving, rpc, all_events, prev, wrote, ge, response, tick>>
    /\ UNCHANGED notStore

\* run_all_scrapers, the end of the with block: the JSON file is complete
json_close ==
    /\ rpc = "write"
    /\ pending = <<>>
    /\ rpc' = "csv"
    /\ wrote' = TRUE
    /\ UNCHANGED <<file, csv, serving, all_events, pending, prev, ge, response, tick>>
    /\ UNCHANGED notStore

\* run_all_scrapers, the CSV block and the return; the boot run then starts the service
csv_write ==
    /\ rpc = "csv"
    /\ csv' = CsvRows(all_events)
    /\ rpc' = "idle"
    /\ serving' = TRUE
    /\ UNCHANGED <<file, all_events, pending, prev, wrote, ge, response, tick>>
    /\ UNCHANGED notStore

\* GET /events
events_request ==
    /\ serving
    /\ ge' = get_events(file)
    /\ response' = events(get_events(file))
    /\ tick' = ~tick
    /\ UNCHANGED <<file, csv, serving, rpc, all_events, pending, prev, wrote>>
    /\ UNCHANGED notStore

Next ==
    \/ boot
    \/ scrape_now
    \/ run_scrape
    \/ json_open
    \/ json_write
    \/ json_close
    \/ csv_write
    \/ events_request

Init == InitStore /\ IdleFetch /\ IdleNorm /\ IdleRun /\ IdleAdapter

Spec == Init /\ [][Next]_vars


(***************************************************************************)
(* Claims about the query service and the snapshot store (Spec).           *)
(***************************************************************************)
\* the file holds a complete JSON list, as a finished run leaves it
IsSnapshotFile(f) == f.mode = "ok" /\ Load(f.toks).ok /\ Load(f.toks).val.k = "list"

\* what get_events returns for the in-memory list es, were it the file's content
SnapshotOf(es) == Wrapper(Len(es), PyEvents(es))

\* C3: whenever GET /events has been answered, the response's "events" is the
\* sequence of events get_events() returned and its "count" is the length of
\* that sequence.
C3_EndpointReturnsSnapshot ==
    ge.k = "dict" =>
        /\ DictGet(response, "events") = DictGet(ge, "events")
        /\ DictGet(response, "count") = PNum(PyLen(DictGet(ge, "events")).n)

\* C4: a get_events() call made while a run is overwriting a previously
\* persisted snapshot returns the complete previous snapshot or the complete
\* new one.
C4_ReaderSeesOldOrNew ==
    [][ (tick' /= tick /\ rpc = "write" /\ IsSnapshotFile(prev))
            => ge' \in {get_events(prev), SnapshotOf(all_events)} ]_vars

\* C5: a get_events() call made after a run has persisted its list s without a
\* write error, and before another run starts, returns count = Len(s) and
\* events = s in order, whatever the file held before.
C5_RoundTrip ==
    [][ (tick' /= tick /\ rpc = "idle" /\ wrote)
            => ge' = SnapshotOf(all_events) ]_vars

\* C5's case: a one-event list has replaced a two-event snapshot and was read back
C5_Witness ==
    /\ rpc = "idle" /\ wrote
    /\ IsSnapshotFile(prev) /\ Len(Load(prev.toks).val.items) = 2
    /\ Len(all_events) = 1
    /\ ge = SnapshotOf(all_events)
    /\ DictGet(ge, "count") = PNum(1)

\* C7: a get_events() call returns {count: 0, events: []} whenever the file is
\* absent, unreadable, or does not hold a JSON list.
C7_BrokenFileGivesEmpty ==
    [][ (tick' /= tick /\ ~IsSnapshotFile(file)) => ge' = EmptyResult ]_vars


(***************************************************************************)
(* fetch(): relay attempts, then direct attempts (SpecFetch).              *)
(***************************************************************************)
SCRAPINGANT_RETRIES == 3
DIRECT_RETRIES == 2
RelayBackoff == 10      \* backoff = 1.0, in tenths of a second
DirectBackoff == 8      \* backoff = 0.8, in tenths of a second

\* the URLs the five adapters fetch
Urls ==
    { "https://usssa.com/api/tournaments/searchFastpitch",
      "https://usfastpitch.com/tournaments",
      "https://pgfusa.com/tournaments",
      "https://play.bullpentournaments.com/events",
      "https://softballconnected.com/tournaments" }

\* what one requests.get may do: raise (timeout, network error, raise_for_status),
\* or answer with a body, which may be empty
AttemptError == [ok |-> FALSE, body |-> ""]
AttemptBody(b) == [ok |-> TRUE, body |-> b]
AttemptOutcomes == {AttemptError} \cup {AttemptBody(b) : b \in {"", "<html>A</html>", "<html>B</html>"}}

\* a plausible slip: the delay shrinks instead of growing
HalveBackoff(b) == b \div 2

\* backoff *= 2
NextBackoff(b) == b * 2

\* if attempt < max_retries: only then does the loop sleep
SleepsAfter(n, max_retries) == n < max_retries

StartFetch ==
    /\ target_url \in Urls
    /\ use_scrapingant \in BOOLEAN
    /\ prefer_proxy \in BOOLEAN
    /\ fpc = "start"
    /\ attempt = 0
    /\ backoff = 0
    /\ relay_sleeps = <<>>
    /\ direct_sleeps = <<>>
    /\ tried = <<>>
    /\ txt = PNone

\* fetch_direct's first two lines: the loop starts
EnterDirect ==
    /\ fpc' = "direct"
    /\ attempt' = 1
    /\ backoff' = DirectBackoff

\* fetch: the relay is tried first when it is enabled and preferred
fetch ==
    /\ fpc = "start"
    /\ IF use_scrapingant /\ prefer_proxy
       THEN fpc' = "relay" /\ attempt' = 1 /\ backoff' = RelayBackoff
       ELSE EnterDirect
    /\ UNCHANGED <<target_url, use_scrapingant, prefer_proxy, relay_sleeps,
                   direct_sleeps, tried, txt>>
    /\ UNCHANGED notFetch

\* fetch_via_scrapingant: one pass of the retry loop, and what fetch does with
\* the value the function returns
fetch_via_scrapingant ==
    /\ fpc = "relay"
    /\ \E o \in AttemptOutcomes :
        /\ tried' = Append(tried, [via |-> "relay", outcome |-> o])
        /\ IF o.ok
           THEN \* return r.text; fetch returns it if it is truthy
                /\ IF Truthy(PStr(o.body))
                   THEN fpc' = "done" /\ txt' = PStr(o.body) /\ UNCHANGED <<attempt, backoff>>
                   ELSE EnterDirect /\ UNCHANGED txt
                /\ UNCHANGED relay_sleeps
           ELSE IF SleepsAfter(attempt, SCRAPINGANT_RETRIES)
                THEN /\ relay_sleeps' = Append(relay_sleeps, backoff)
                     /\ backoff' = NextBackoff(backoff)
                     /\ attempt' = attempt + 1
                     /\ UNCHANGED <<fpc, txt>>
                ELSE \* the loop is over: return None, and fetch falls through
                     EnterDirect /\ UNCHANGED <<txt, relay_sleeps>>
    /\ UNCHANGED <<target_url, use_scrapingant, prefer_proxy, direct_sleeps>>
    /\ UNCHANGED notFetch

\* fetch_direct: one pass of the retry loop; fetch returns whatever it returns
fetch_direct ==
    /\ fpc = "direct"
    /\ \E o \in AttemptOutcomes :
        /\ tried' = Append(tried, [via |-> "direct", outcome |-> o])
        /\ IF o.ok
           THEN /\ fpc' = "done" /\ txt' = PStr(o.body)
                /\ UNCHANGED <<attempt, backoff, direct_sleeps>>
           ELSE IF SleepsAfter(attempt, DIRECT_RETRIES)
                THEN /\ direct_sleeps' = Append(direct_sleeps, backoff)
                     /\ backoff' = NextBackoff(backoff)
                     /\ attempt' = attempt + 1
                     /\ UNCHANGED <<fpc, txt>>
                ELSE /\ fpc' = "done" /\ txt' = PNone
                     /\ UNCHANGED <<attempt, backoff, direct_sleeps>>
    /\ UNCHANGED <<target_url, use_scrapingant, prefer_proxy, relay_sleeps>>
    /\ UNCHANGED notFetch

NextFetch ==
    \/ fetch
    \/ fetch_via_scrapingant
    \/ fetch_direct

InitFetch == StartFetch /\ IdleStore /\ IdleNorm /\ IdleRun /\ IdleAdapter

SpecFetch == InitFetch /\ [][NextFetch]_vars

(***************************************************************************)
(* Claims about fetch (SpecFetch).                                         *)
(***************************************************************************)
Attempts(via) == SelectSeq(tried, LAMBDA a : a.via = via)
Errors(via) == SelectSeq(tried, LAMBDA a : a.via = via /\ ~a.outcome.ok)
NonEmpty == SelectSeq(tried, LAMBDA a : a.outcome.ok /\ a.outcome.body /= "")

\* C2: a finished fetch returns the first non-empty body any attempt got, and
\* returns a failed result (None or an empty body) only after all
\* SCRAPINGANT_RETRIES relay attempts (relay enabled and preferred) and all
\* DIRECT_RETRIES direct attempts have been made.
C2_FailsOnlyWhenExhausted ==
    fpc = "done" =>
        /\ Truthy(txt) => NonEmpty /= <<>> /\ txt = PStr(NonEmpty[1].outcome.body)
        /\ ~Truthy(txt) =>
              /\ Len(Attempts("relay")) =
                    (IF use_scrapingant /\ prefer_proxy THEN SCRAPINGANT_RETRIES ELSE 0)
              /\ Len(Attempts("direct")) = DIRECT_RETRIES

\* the n-th base delay of a loop that starts at b0
Doubled(b0, n) == b0 * 2 ^ (n - 1)

\* the sleeps of one loop: doubling from b0, never shrinking, one per failed
\* attempt except a failed last attempt
BackoffOk(sleeps, b0, errors, max_retries) ==
    /\ \A n \in 1..Len(sleeps) : sleeps[n] = Doubled(b0, n)
    /\ \A n \in 2..Len(sleeps) : sleeps[n] >= sleeps[n - 1]
    /\ Len(sleeps) = IF errors = max_retries THEN max_retries - 1 ELSE errors

\* C9: within a relay fetch and within a direct fetch the base delay doubles
\* after each wait (relay 1.0, 2.0, ...; direct 0.8, 1.6, ...), so it never
\* shrinks, and no wait follows the last attempt.
C9_BackoffMonotone ==
    /\ BackoffOk(relay_sleeps, RelayBackoff, Len(Errors("relay")), SCRAPINGANT_RETRIES)
    /\ BackoffOk(direct_sleeps, DirectBackoff, Len(Errors("direct")), DIRECT_RETRIES)

\* C9's case: every relay and every direct attempt failed
C9_Witness ==
    /\ fpc = "done"
    /\ relay_sleeps = <<10, 20>>
    /\ direct_sleeps = <<8>>
    /\ Len(Errors("relay")) = 3 /\ Len(Errors("direct")) = 2

(***************************************************************************)
(* normalize_event over raw records (SpecNorm).                            *)
(***************************************************************************)
\* the keys normalize_event looks up
AliasKeys ==
    << "event_name", "name", "Name", "start_date", "startDate", "StartDate",
       "end_date", "endDate", "EndDate", "location", "Location", "city",
       "sanction", "source", "link", "url", "link_url", "age_divisions", "age" >>

ListKeys == {"age_divisions", "age"}

\* the value a raw record holds under a key: empty, or a value naming the key
RawValue(key, empty) ==
    IF key \in ListKeys
    THEN (IF empty THEN PList(<<>>) ELSE PList(<<PStr("12U")>>))
    ELSE (IF empty THEN PStr("") ELSE PStr("value of " \o key))

\* the raw record with the keys numbered in K, those in E holding empty values
RawRecord(K, E) ==
    LET idx == SelectSeq([i \in 1..Len(AliasKeys) |-> i], LAMBDA i : i \in K)
    IN PDict([j \in 1..Len(idx) |-> Pair(AliasKeys[idx[j]],
                                         RawValue(AliasKeys[idx[j]], idx[j] \in E))])

\* the sets of at most MaxKeys key numbers
KeySets == {K \in SUBSET (1..Len(AliasKeys)) : Cardinality(K) <= MaxKeys}

StartNorm ==
    /\ \E K \in KeySets : \E E \in SUBSET K : event = RawRecord(K, E)
    /\ normalized = PNone

\* a call normalize_event(event)
normalize_call ==
    /\ event /= PNone
    /\ normalized = PNone
    /\ normalized' = normalize_event(event)
    /\ UNCHANGED event
    /\ UNCHANGED notNorm

NextNorm == normalize_call

InitNorm == StartNorm /\ IdleStore /\ IdleFetch /\ IdleRun /\ IdleAdapter

SpecNorm == InitNorm /\ [][NextNorm]_vars

(***************************************************************************)
(* Claims about normalize_event (SpecNorm).                                *)
(***************************************************************************)
ScalarFields == {"event_name", "start_date", "end_date", "location", "sanction", "link"}

\* each scalar field's alias keys, in lookup order
C6_Aliases(field) ==
    CASE field = "event_name" -> <<"event_name", "name", "Name">>
      [] field = "start_date" -> <<"start_date", "startDate", "StartDate">>
      [] field = "end_date"   -> <<"end_date", "endDate", "EndDate">>
      [] field = "location"   -> <<"location", "Location", "city">>
      [] field = "sanction"   -> <<"sanction", "source">>
      [] field = "link"       -> <<"link", "url", "link_url">>

HasKey(e, key) == \E i \in 1..Len(e.items) : e.items[i].s = key

\* the key is present and its value is a non-empty string
Filled(e, key) == HasKey(e, key) /\ DictGet(e, key).k = "str" /\ DictGet(e, key).s /= ""

\* C6: normalize_event returns an event whose six scalar fields are non-empty
\* strings: each is the value of the first alias key, in the field's alias
\* order, whose value is present and non-empty, or "N/A" when there is none.
C6_NormalizeTotal ==
    normalized /= PNone =>
        /\ normalized.k = "dict"
        /\ \A f \in ScalarFields :
            LET keys == C6_Aliases(f)
                v == DictGet(normalized, f)
            IN /\ HasKey(normalized, f)
               /\ v.k = "str" /\ v.s /= ""
               /\ \/ \E n \in 1..Len(keys) :
                        /\ Filled(event, keys[n])
                        /\ \A m \in 1..(n - 1) : ~Filled(event, keys[m])
                        /\ v = DictGet(event, keys[n])
                  \/ /\ \A n \in 1..Len(keys) : ~Filled(event, keys[n])
                     /\ v = NA

\* C6's case: event_name is present but empty, name is missing, Name is filled
C6_Witness ==
    /\ normalized /= PNone
    /\ HasKey(event, "event_name") /\ ~Filled(event, "event_name")
    /\ ~HasKey(event, "name")
    /\ Filled(event, "Name")
    /\ DictGet(normalized, "event_name") = PStr("value of Name")
    /\ DictGet(normalized, "link") = NA

(***************************************************************************)
(* run_all_scrapers as the script runs it: the adapter loop, then the      *)
(* files (SpecRun).  Nothing reads the files meanwhile, so the writes are  *)
(* taken in one step.                                                      *)
(***************************************************************************)
scrapers ==
    << "scrape_usssa", "scrape_usfa", "scrape_pgf", "scrape_bullpen",
       "scrape_softball_connected" >>

SanctionOf == << "USSSA", "USFA", "PGF", "Bullpen", "SoftballConnected" >>

\* the k-th record of the i-th adapter's events list
AdapterRecord(i, k) ==
    RawEvent(SanctionOf[i] \o " event " \o ToString(k), "N/A", "N/A",
             IF i = 1 THEN "" ELSE "N/A", SanctionOf[i], "N/A")

ScraperOutcomes(i) ==
    {Raised} \cup {Yielded([k \in 1..n |-> AdapterRecord(i, k)]) : n \in 0..MaxYield}

\* a plausible slip: a failing adapter throws the collected events away
LoopBodyResetting(acc, o) ==
    IF o.raised THEN <<>>
    ELSE acc \o [k \in 1..Len(o.data) |-> normalize_event(o.data[k])]

\* one pass of the loop: the except clause keeps all_events as it is, the try
\* block appends the normalized records
LoopBody(acc, o) ==
    IF o.raised THEN acc
    ELSE acc \o [k \in 1..Len(o.data) |-> normalize_event(o.data[k])]

StartRun ==
    /\ file \in {AbsentFile, UnreadableFile, TextFile(Dump(PyEvents(<<>>)))}
    /\ csv = <<>>
    /\ serving = FALSE
    /\ rpc = "loop"
    /\ all_events = <<>>
    /\ pending = <<>>
    /\ prev = AbsentFile
    /\ wrote = FALSE
    /\ ge = PNone
    /\ response = PNone
    /\ tick = FALSE
    /\ yields = <<>>
    /\ returned = PNone

\* run_all_scrapers, one pass of the loop over scrapers
run_loop ==
    /\ rpc = "loop"
    /\ \E o \in ScraperOutcomes(Len(yields) + 1) :
        /\ yields' = Append(yields, o)
        /\ all_events' = LoopBody(all_events, o)
    /\ rpc' = IF Len(yields) + 1 = Len(scrapers) THEN "persist" ELSE "loop"
    /\ UNCHANGED <<file, csv, serving, pending, prev, wrote, ge, response, tick, returned>>
    /\ UNCHANGED <<fetchVars, normVars, adapterVars>>

\* run_all_scrapers, the JSON block, the CSV block and the return
run_persist ==
    /\ rpc = "persist"
    /\ IF file.mode /= "unreadable"
       THEN file' = TextFile(Dump(PyEvents(all_events))) /\ wrote' = TRUE
       ELSE UNCHANGED <<file, wrote>>
    /\ csv' = CsvRows(all_events)
    /\ returned' = PyEvents(all_events)
    /\ rpc' = "idle"
    /\ UNCHANGED <<serving, all_events, pending, prev, ge, response, tick, yields>>
    /\ UNCHANGED <<fetchVars, normVars, adapterVars>>

NextRun ==
    \/ run_loop
    \/ run_persist

InitRun == StartRun /\ IdleFetch /\ IdleNorm /\ IdleAdapter

SpecRun == InitRun /\ [][NextRun]_vars

(***************************************************************************)
(* Claims about the adapter loop (SpecRun).                                *)
(***************************************************************************)
RECURSIVE C1_Offset(_)
\* the number of records the non-failing adapters before the i-th yielded
C1_Offset(i) ==
    IF i = 1 THEN 0
    ELSE C1_Offset(i - 1) + (IF yields[i - 1].raised THEN 0 ELSE Len(yields[i - 1].data))

\* C1: run_all_scrapers returns the normalized records of the non-failing
\* adapters, in registration order and, within an adapter, in extraction
\* order; a failing adapter contributes nothing, and the count is the sum of
\* the non-failing adapters' yields.
C1_FailureIsolation ==
    returned /= PNone =>
        /\ Len(yields) = Len(scrapers)
        /\ returned.k = "list"
        /\ Len(returned.items) = C1_Offset(Len(scrapers) + 1)
        /\ \A i \in 1..Len(scrapers) :
              ~yields[i].raised =>
                  \A k \in 1..Len(yields[i].data) :
                      returned.items[C1_Offset(i) + k] = normalize_event(yields[i].data[k])

\* C1's case: the first adapter raises, the second yields 2 and the third 3
C1_Witness ==
    /\ returned /= PNone
    /\ yields[1].raised
    /\ ~yields[2].raised /\ Len(yields[2].data) = 2
    /\ ~yields[3].raised /\ Len(yields[3].data) = 3
    /\ yields[4].raised
    /\ Len(returned.items) = 5 + Len(yields[5].data)
    /\ DictGet(returned.items[3], "sanction") = PStr("PGF")

(***************************************************************************)
(* scrape_usssa: the structured payload and the embedded-script fallback   *)
(* (SpecAdapter).                                                          *)
(***************************************************************************)
JsonBody(v)   == [kind |-> "text", toks |-> Dump(v), scripts |-> <<>>, doc |-> <<>>]
ScriptBody(s) == [kind |-> "text", toks |-> <<Word("<html>")>>, scripts |-> s, doc |-> <<>>]
PageBody(d)   == [kind |-> "text", toks |-> <<Word("<html>")>>, scripts |-> <<>>, doc |-> d]

\* str(v) inside an f-string, for the values a tournament id takes here
PyFormat(v) ==
    CASE v.k = "str" -> v.s
      [] v.k = "num" -> ToString(v.n)
      [] v.k = "none" -> "None"
      [] v.k = "bool" -> (IF v.n = 1 THEN "True" ELSE "False")

\* ", ".join(parts): a TypeError (ok = FALSE) unless every part is a str
JoinComma(parts) ==
    IF \E i \in 1..Len(parts) : parts[i].k /= "str" THEN [ok |-> FALSE, s |-> ""]
    ELSE IF Len(parts) = 0 THEN [ok |-> TRUE, s |-> ""]
    ELSE IF Len(parts) = 1 THEN [ok |-> TRUE, s |-> parts[1].s]
    ELSE [ok |-> TRUE, s |-> parts[1].s \o ", " \o parts[2].s]

\* the body of the loop over items: the event appended for t, or an exception
\* (ok = FALSE) that the except clause turns into "continue"
UsssaEvent(t) ==
    IF t.k /= "dict" THEN [ok |-> FALSE, ev |-> PNone]
    ELSE LET get(key) == DictGet(t, key)
             name  == Or(get("name"), Or(get("Name"), Or(get("tournamentName"), NA)))
             start == Or(get("startDate"), Or(get("StartDate"), Or(get("Start"), NA)))
             end   == Or(get("endDate"), Or(get("EndDate"), NA))
             city  == Or(get("city"), Or(get("City"), PStr("")))
             state == Or(get("state"), Or(get("State"), PStr("")))
             tid   == Or(get("tournamentID"), Or(get("TournamentID"), Or(get("id"), PStr(""))))
             link  == IF Truthy(tid)
                      THEN PStr("https://usssa.com/tournament/" \o PyFormat(tid))
                      ELSE Or(get("link"), NA)
             where == JoinComma(SelectSeq(<<city, state>>, Truthy))
         IN IF ~where.ok THEN [ok |-> FALSE, ev |-> PNone]
            ELSE [ok |-> TRUE,
                  ev |-> PDict(<< Pair("event_name", name), Pair("start_date", start),
                                  Pair("end_date", end), Pair("location", PStr(where.s)),
                                  Pair("sanction", PStr("USSSA")), Pair("link", link) >>)]

\* whether "for t in v" can start: a TypeError otherwise
Iterable(v) == v.k \in {"list", "dict", "str"}

\* what "for t in v" goes through: the elements of a list, the keys of a dict,
\* the characters of a str (which character does not matter: none is a dict)
Iterate(v) ==
    CASE v.k = "list" -> v.items
      [] v.k = "dict" -> [i \in 1..Len(v.items) |-> PStr(v.items[i].s)]
      [] v.k = "str"  -> [i \in 1..Len(v.s) |-> PStr("c")]

\* items: the list under the first container key with a truthy value, or the
\* top-level list, or []
ItemsOf(raw) ==
    IF raw.k = "dict"
    THEN Or(DictGet(raw, "tournaments"), Or(DictGet(raw, "Items"),
         Or(DictGet(raw, "items"), Or(DictGet(raw, "data"), PList(<<>>)))))
    ELSE IF raw.k = "list" THEN raw ELSE PList(<<>>)

Markers == {"tournaments", "Items", "items"}

FirstIndex(toks, tok) ==
    IF \E i \in 1..Len(toks) : toks[i] = tok
    THEN CHOOSE i \in 1..Len(toks) : toks[i] = tok /\ \A j \in 1..(i - 1) : toks[j] /= tok
    ELSE 0

LastIndex(toks, tok) ==
    IF \E i \in 1..Len(toks) : toks[i] = tok
    THEN CHOOSE i \in 1..Len(toks) : toks[i] = tok /\ \A j \in (i + 1)..Len(toks) : toks[j] /= tok
    ELSE 0

RECURSIVE ScriptBlob(_, _)
\* the loop over soup.find_all("script"): the first snippet that parses, from
\* the first "{" to the last "}" of a script that names a marker; {} if none does
ScriptBlob(scripts, i) ==
    IF i > Len(scripts) THEN PDict(<<>>)
    ELSE LET s == scripts[i]
             start == FirstIndex(s.toks, Punct("{"))
             last  == LastIndex(s.toks, Punct("}"))
             snippet == IF last >= start THEN SubSeq(s.toks, start, last) ELSE <<>>
         IN IF /\ s.string
               /\ \E j \in 1..Len(s.toks) : s.toks[j].s \in Markers
               /\ start /= 0
               /\ Load(snippet).ok
            THEN Load(snippet).val
            ELSE ScriptBlob(scripts, i + 1)

\* scrape_usssa, after the fetch
UsssaExtract(b) ==
    IF b.kind /= "text" THEN Yielded(<<>>)
    ELSE LET raw == IF Load(b.toks).ok THEN Load(b.toks).val
                    ELSE ScriptBlob(b.scripts, 1)
             items == ItemsOf(raw)
         IN IF ~Iterable(items) THEN Raised
            ELSE LET tried_items == [i \in 1..Len(Iterate(items)) |-> UsssaEvent(Iterate(items)[i])]
                     kept == SelectSeq(tried_items, LAMBDA r : r.ok)
                 IN Yielded([i \in 1..Len(kept) |-> kept[i].ev])

\* the items a USSSA payload's list is drawn from
UsssaItems ==
    { PDict(<< Pair("name", PStr("Spring Classic")), Pair("startDate", PStr("2025-03-01")),
               Pair("endDate", PStr("2025-03-02")), Pair("city", PStr("Austin")),
               Pair("state", PStr("TX")), Pair("tournamentID", PNum(7)) >>),
      PDict(<< Pair("Name", PStr("Fall Brawl")), Pair("link", PStr("https://usssa.com/fall")) >>),
      PDict(<< Pair("tournamentName", PStr("")), Pair("City", PNum(5)) >>),
      PStr("x") }

UsssaLists == {PList(l) : l \in SeqsUpTo(UsssaItems, MaxItems)}

\* the values found under a container key: a list of items, or something else
ContainerValues ==
    UsssaLists \cup
    { PNum(5), PBool(TRUE), PStr("none"), PNone, PDict(<<Pair("total", PNum(0))>>) }

UsssaPayloads ==
    {PDict(<<Pair(key, v)>>) :
        key \in {"tournaments", "Items", "items", "data", "results"}, v \in ContainerValues}
    \cup {PDict(<<Pair("tournaments", PList(<<>>)), Pair("data", v)>>) : v \in UsssaLists}
    \cup UsssaLists
    \cup {PNum(5), PStr("error"), PNone, PBool(FALSE)}

\* the script tags a page is drawn from: one without a string, one whose object
\* parses, one that names a marker without a brace, one whose snippet does not
\* parse, one that parses but names no marker
Script(toks) == [string |-> TRUE, toks |-> toks]
UsssaScripts ==
    { [string |-> FALSE, toks |-> <<>>],
      Script(<<Word("window.__DATA__"), Word("=")>>
             \o Dump(PDict(<<Pair("tournaments",
                    PList(<<CHOOSE r \in UsssaItems : DictGet(r, "name") = PStr("Spring Classic")>>))>>))
             \o <<Word(";")>>),
      Script(<<Word("var"), Word("tournaments"), Word("="), Num(5), Word(";")>>),
      Script(Dump(PDict(<<Pair("items", PList(<<>>))>>))
             \o <<Word(";"), Word("function"), Punct("{"), Punct("}")>>),
      Script(Dump(PDict(<<Pair("results", PList(<<>>))>>))) }

UsssaBodies ==
    {NoBody, EmptyBody}
    \cup {JsonBody(v) : v \in UsssaPayloads}
    \cup {ScriptBody(s) : s \in SeqsUpTo(UsssaScripts, MaxScripts)}

(***************************************************************************)
(* The selector-based adapters.  A page is the sequence of its top-level   *)
(* elements in document order; an element has a tag, classes, its text,    *)
(* an href (a sequence of none or one), kw (its lowercased text holds      *)
(* "tournament" or "classic") and its child elements.                      *)
(***************************************************************************)
AnchorLimit == 200

El(tag, cls, text, href, kw, kids) ==
    [tag |-> tag, cls |-> cls, text |-> text, href |-> href, kw |-> kw, kids |-> kids]
Leaf(tag, cls, text) == El(tag, cls, text, <<>>, FALSE, <<>>)
Anchor(text, href, kw) == El("a", {}, text, href, kw, <<>>)
Box(tag, cls, kids) == El(tag, cls, "", <<>>, FALSE, kids)

\* a simple selector: a tag (or "" for any) with classes; anc holds the
\* selector an ancestor must match, for "A B"
Sel(tag, cls) == [tag |-> tag, cls |-> cls, anc |-> <<>>]
Within(outer, inner) == [tag |-> inner.tag, cls |-> inner.cls, anc |-> <<outer>>]

MatchesSimple(e, sel) == (sel.tag = "" \/ e.tag = sel.tag) /\ sel.cls \subseteq e.cls

\* e, whose parent is up[1] when there is one, matches sel
Matches(e, up, sel) ==
    /\ MatchesSimple(e, sel)
    /\ sel.anc /= <<>> => (up /= <<>> /\ MatchesSimple(up[1], sel.anc[1]))

RECURSIVE Flatten(_, _)
\* the elements of the page from the i-th top-level one on, in document order
Flatten(doc, i) ==
    IF i > Len(doc) THEN <<>>
    ELSE <<[el |-> doc[i], up |-> <<>>]>>
         \o [j \in 1..Len(doc[i].kids) |-> [el |-> doc[i].kids[j], up |-> <<doc[i]>>]]
         \o Flatten(doc, i + 1)

\* soup.select("s1, s2, ..."): the elements matching any of the group
Select(doc, group) ==
    LET hits == SelectSeq(Flatten(doc, 1), LAMBDA n : \E s \in group : Matches(n.el, n.up, s))
    IN [j \in 1..Len(hits) |-> hits[j].el]

\* c.select_one("s1, s2, ..."): the first descendant of c matching any, if one does
SelectOne(c, group) ==
    LET hits == SelectSeq(c.kids, LAMBDA k : \E s \in group : Matches(k, <<c>>, s))
    IN IF hits = <<>> THEN <<>> ELSE <<hits[1]>>

\* x or y, for the results of select_one (a Tag is truthy)
OrEl(x, y) == IF x /= <<>> THEN x ELSE y

\* el.get_text(strip=True) if el else "N/A"
TextOrNA(found) == IF found = <<>> THEN "N/A" ELSE found[1].text

\* link_tag["href"] if link_tag and link_tag.has_attr("href") else "N/A"
HrefOrNA(c) ==
    LET a == SelectOne(c, {Sel("a", {})})
    IN IF a /= <<>> /\ a[1].href /= <<>> THEN a[1].href[1] ELSE "N/A"

Class(name) == Sel("", {name})
Tag(name) == Sel(name, {})

\* a plausible slip: no break, so the last candidate's matches are used
LastCandidate(doc, cands, n) == Select(doc, cands[Len(cands)])

RECURSIVE FirstNonEmpty(_, _, _)
\* the matches of the first candidate from the n-th on that matches anything
FirstNonEmpty(doc, cands, n) ==
    IF n > Len(cands) THEN <<>>
    ELSE IF Select(doc, cands[n]) /= <<>> THEN Select(doc, cands[n])
    ELSE FirstNonEmpty(doc, cands, n + 1)

UsfaSelectors ==
    << {Class("tournament-card")}, {Sel("", {"card", "tournament"})}, {Class("event")},
       {Within(Class("tournaments-list"), Class("tournament"))}, {Class("listing")} >>

PgfSelectors ==
    << {Class("tourney-box"), Class("tournament"), Class("event-card"),
        Class("t-list-item"), Class("tourney")},
       {Tag("article"), Class("card"), Class("listing")} >>

BullpenSelectors ==
    << {Class("event-row"), Class("event"), Class("event-card")},
       {Within(Tag("table"), Tag("tr")), Class("list-item"), Tag("li")} >>

SoftballConnectedSelectors ==
    << {Class("tournament-card"), Class("card"), Class("tournament"), Class("listing")} >>

\* scrape_usfa, the body of the loop over found
UsfaEvent(c) ==
    LET title == OrEl(SelectOne(c, {Class("title")}),
                 OrEl(SelectOne(c, {Tag("h3")}), SelectOne(c, {Tag("a")})))
        date  == OrEl(SelectOne(c, {Class("date")}),
                 OrEl(SelectOne(c, {Class("dates")}), SelectOne(c, {Class("t-date")})))
        loc   == OrEl(SelectOne(c, {Class("location")}),
                 OrEl(SelectOne(c, {Class("place")}), SelectOne(c, {Class("t-location")})))
    IN RawEvent(IF TextOrNA(title) = "" THEN "N/A" ELSE TextOrNA(title),
                TextOrNA(date), TextOrNA(date), TextOrNA(loc), "USFA", HrefOrNA(c))

\* scrape_usfa, the fallback over the page's anchors
UsfaAnchorEvents(doc) ==
    LET all == Select(doc, {Tag("a")})
        anchors == SubSeq(all, 1, IF Len(all) < AnchorLimit THEN Len(all) ELSE AnchorLimit)
        kept == SelectSeq(anchors, LAMBDA a : Len(a.text) > 20 /\ a.kw)
    IN [j \in 1..Len(kept) |->
          RawEvent(kept[j].text, "N/A", "N/A", "N/A", "USFA",
                   IF kept[j].href /= <<>> /\ kept[j].href[1] /= ""
                   THEN kept[j].href[1] ELSE "N/A")]

\* scrape_usfa, after the fetch
UsfaExtract(b) ==
    IF b.kind /= "text" THEN Yielded(<<>>)
    ELSE LET found == FirstNonEmpty(b.doc, UsfaSelectors, 1)
         IN IF found = <<>> THEN Yielded(UsfaAnchorEvents(b.doc))
            ELSE Yielded([j \in 1..Len(found) |-> UsfaEvent(found[j])])

\* the body of the loop over cards of scrape_pgf, scrape_bullpen and
\* scrape_softball_connected: one select_one per field
CardEvent(c, title, date, loc, sanction) ==
    RawEvent(TextOrNA(SelectOne(c, title)), TextOrNA(SelectOne(c, date)),
             TextOrNA(SelectOne(c, date)), TextOrNA(SelectOne(c, loc)),
             sanction, HrefOrNA(c))

PgfEvent(c) ==
    CardEvent(c, {Class("t-title"), Tag("h3"), Class("title"), Tag("a")},
              {Class("t-date"), Class("date")}, {Class("t-loc"), Class("location")}, "PGF")

BullpenEvent(c) ==
    CardEvent(c, {Class("name"), Tag("h3"), Tag("a")},
              {Class("dates"), Class("date")}, {Class("location"), Class("place")}, "Bullpen")

SoftballConnectedEvent(c) ==
    CardEvent(c, {Class("title"), Tag("h3"), Class("name"), Tag("a")},
              {Class("date"), Class("dates")},
              {Class("location"), Class("place"), Class("city")}, "SoftballConnected")

\* scrape_pgf, after the fetch
PgfExtract(b) ==
    IF b.kind /= "text" THEN Yielded(<<>>)
    ELSE LET cards == FirstNonEmpty(b.doc, PgfSelectors, 1)
         IN Yielded([j \in 1..Len(cards) |-> PgfEvent(cards[j])])

\* scrape_bullpen, after the fetch
BullpenExtract(b) ==
    IF b.kind /= "text" THEN Yielded(<<>>)
    ELSE LET rows == FirstNonEmpty(b.doc, BullpenSelectors, 1)
         IN Yielded([j \in 1..Len(rows) |-> BullpenEvent(rows[j])])

\* scrape_softball_connected, after the fetch
SoftballConnectedExtract(b) ==
    IF b.kind /= "text" THEN Yielded(<<>>)
    ELSE LET cards == Select(b.doc, SoftballConnectedSelectors[1])
         IN Yielded([j \in 1..Len(cards) |-> SoftballConnectedEvent(cards[j])])

\* the top-level elements a page is drawn from
PageElements ==
    { Box("div", {"tournament-card"},
          << Leaf("span", {"title"}, "Spring Classic"), Leaf("span", {"date"}, "Mar 1-2"),
             Leaf("span", {"location"}, "Austin, TX"), Anchor("Details", <<"/e/1">>, FALSE) >>),
      Box("div", {"card", "tournament"},
          << Leaf("h3", {}, "Fall Brawl"), Anchor("Register", <<>>, FALSE) >>),
      Box("div", {"event"},
          << Anchor("Summer Tournament of Champions", <<"/e/3">>, TRUE) >>),
      Box("div", {"listing"},
          << Leaf("span", {"title"}, ""), Leaf("span", {"dates"}, "Jun 7-8"),
             Leaf("span", {"place"}, "Waco, TX"),
             Anchor("Lone Star Classic Invitational", <<"/e/4">>, TRUE) >>),
      Box("div", {"listing"}, <<>>),
      Box("article", {},
          << Leaf("h3", {"t-title"}, "PGF Nationals"), Leaf("span", {"t-date"}, "Jul 20-27"),
             Leaf("span", {"t-loc"}, "Irvine, CA"), Anchor("More", <<"">>, FALSE) >>),
      Box("li", {}, << Anchor("Bullpen Classic", <<"/b/7">>, TRUE) >>),
      Box("div", {"event-row"},
          << Leaf("span", {"name"}, "Bullpen Open"), Leaf("span", {"dates"}, "Aug 2-3"),
             Leaf("span", {"place"}, "Westfield, IN") >>),
      Box("div", {"tournaments-list"}, << Leaf("div", {"tournament"}, "Nested Invitational") >>),
      Box("p", {}, << Anchor("About the tournament series", <<"/about">>, TRUE) >>),
      Box("div", {"tourney-box"}, << Leaf("span", {"t-title"}, "Box Event") >>),
      Box("table", {}, << Leaf("tr", {}, "Row Event") >>) }

PageBodies ==
    {NoBody, EmptyBody} \cup {PageBody(d) : d \in SeqsUpTo(PageElements, MaxDoc)}

\* a call of an adapter: the fetch returns some body, the rest is the extraction
scrape_usssa ==
    /\ adapter = ""
    /\ \E b \in UsssaBodies : body' = b /\ scraped' = UsssaExtract(b)
    /\ adapter' = "scrape_usssa"
    /\ UNCHANGED notAdapter

scrape_usfa ==
    /\ adapter = ""
    /\ \E b \in PageBodies : body' = b /\ scraped' = UsfaExtract(b)
    /\ adapter' = "scrape_usfa"
    /\ UNCHANGED notAdapter

scrape_pgf ==
    /\ adapter = ""
    /\ \E b \in PageBodies : body' = b /\ scraped' = PgfExtract(b)
    /\ adapter' = "scrape_pgf"
    /\ UNCHANGED notAdapter

scrape_bullpen ==
    /\ adapter = ""
    /\ \E b \in PageBodies : body' = b /\ scraped' = BullpenExtract(b)
    /\ adapter' = "scrape_bullpen"
    /\ UNCHANGED notAdapter

scrape_softball_connected ==
    /\ adapter = ""
    /\ \E b \in PageBodies : body' = b /\ scraped' = SoftballConnectedExtract(b)
    /\ adapter' = "scrape_softball_connected"
    /\ UNCHANGED notAdapter

NextAdapter ==
    \/ scrape_usssa
    \/ scrape_usfa
    \/ scrape_pgf
    \/ scrape_bullpen
    \/ scrape_softball_connected

InitAdapter == IdleAdapter /\ IdleStore /\ IdleFetch /\ IdleNorm /\ IdleRun

SpecAdapter == InitAdapter /\ [][NextAdapter]_vars

(***************************************************************************)
(* Claims about the adapters (SpecAdapter).                                *)
(***************************************************************************)
\* C8: every adapter returns a sequence and never raises, whatever the fetch
\* returned and whatever shape the payload has.
C8_AdaptersNeverRaise == adapter /= "" => ~scraped.raised

\* the ordered candidates of a selector-based adapter
C10_Candidates(a) ==
    CASE a = "scrape_usfa" -> UsfaSelectors
      [] a = "scrape_pgf" -> PgfSelectors
      [] a = "scrape_bullpen" -> BullpenSelectors
      [] a = "scrape_softball_connected" -> SoftballConnectedSelectors

\* the event the adapter extracts from one matched element
C10_EventOf(a, c) ==
    CASE a = "scrape_usfa" -> UsfaEvent(c)
      [] a = "scrape_pgf" -> PgfEvent(c)
      [] a = "scrape_bullpen" -> BullpenEvent(c)
      [] a = "scrape_softball_connected" -> SoftballConnectedEvent(c)

\* candidate n matches something and no earlier candidate does
C10_FirstMatching(a, n) ==
    /\ Select(body.doc, C10_Candidates(a)[n]) /= <<>>
    /\ \A m \in 1..(n - 1) : Select(body.doc, C10_Candidates(a)[m]) = <<>>

\* C10: a selector-based adapter extracts from the first candidate selector
\* that matches anything: it returns one event per element that candidate
\* matches, in document order, and nothing else; so when only the last
\* candidate matches, exactly that candidate's elements.
C10_SelectorFallback ==
    (adapter \in {"scrape_usfa", "scrape_pgf", "scrape_bullpen", "scrape_softball_connected"}
        /\ body.kind = "text") =>
        \A n \in 1..Len(C10_Candidates(adapter)) :
            C10_FirstMatching(adapter, n) =>
                LET matched == Select(body.doc, C10_Candidates(adapter)[n])
                IN scraped = Yielded([j \in 1..Len(matched) |-> C10_EventOf(adapter, matched[j])])

\* C10's case: only scrape_usfa's last candidate, .listing, matches; it matches
\* two elements, and the page has an anchor the fallback would have taken
C10_Witness ==
    /\ adapter = "scrape_usfa"
    /\ body.kind = "text"
    /\ C10_FirstMatching("scrape_usfa", Len(UsfaSelectors))
    /\ Len(Select(body.doc, {Class("listing")})) = 2
    /\ UsfaAnchorEvents(body.doc) /= <<>>
    /\ ~scraped.raised /\ Len(scraped.data) = 2
    /\ \A j \in 1..2 : DictGet(scraped.data[j], "event_name") = NA

=============================================================================
